---- MODULE Spec2Model ----
(***************************************************************************)
(* Model of task_cli.py: a command-line task tracker that keeps its tasks  *)
(* in one JSON document, tasks.json.  Every invocation of the program is a *)
(* short-lived process: main() validates sys.argv, the command's function  *)
(* loads the whole document, changes it in memory and writes the whole     *)
(* document back.  Several invocations may run at the same time on the     *)
(* same file; nothing in the program locks it.                             *)
(***************************************************************************)
EXTENDS FiniteSets, Integers, Sequences, TLC

\* ------------------------------------------------------------------ bounds
\* Invocations started in one behaviour.
MaxInv == 3
\* Invocations started in one behaviour that begins with an arbitrary file.
MaxFileInv == 2
\* Readings of the local clock are drawn from 0 .. MaxClock.
MaxClock == 1
\* The same for the invocations that run concurrently.
MaxRaceClock == 0

\* The processes that may run the program concurrently.
Procs == {1, 2}

\* --------------------------------------------------------------- the file
\* States of tasks.json.  "doc" is a document the program can parse; its
\* tasks are in tasks.  "malformed" is a file that is not a JSON document (an
\* empty or partly written file included).  "badenc" is a file whose bytes
\* are not UTF-8.  "unreadable" is a path that exists but cannot be opened (a
\* directory, or a file without permissions).
Missing == [kind |-> "missing", tasks |-> <<>>]
Malformed == [kind |-> "malformed", tasks |-> <<>>]
BadEncoding == [kind |-> "badenc", tasks |-> <<>>]
Unreadable == [kind |-> "unreadable", tasks |-> <<>>]
Doc(tasks) == [kind |-> "doc", tasks |-> tasks]

\* A description that reaches sys.argv as a lone surrogate (a command-line
\* byte that is not UTF-8); the utf-8 codec cannot encode it.
Surrogate == "\\udc80"

Task(id, description, status, createdAt, updatedAt) ==
    [id |-> id, description |-> description, status |-> status,
     createdAt |-> createdAt, updatedAt |-> updatedAt]

\* ---------------------------------------------------------- command lines
Prog == "task_cli.py"

\* Command lines that main() answers itself: the help and the usage errors.
UsageArgvs ==
    {<<Prog>>, <<Prog, "frob">>, <<Prog, "add">>, <<Prog, "update">>,
     <<Prog, "update", "1">>, <<Prog, "update", "x", "b">>,
     <<Prog, "delete">>, <<Prog, "delete", "x">>, <<Prog, "mark-done">>,
     <<Prog, "mark-in-progress">>, <<Prog, "mark-done", "x">>,
     <<Prog, "mark-in-progress", "x">>}

\* Command lines that reach the command's function.
AddArgvs ==
    {<<Prog, "add", "a">>, <<Prog, "add", "">>, <<Prog, "add", "a", "b">>,
     <<Prog, "add", Surrogate>>}
ListArgvs ==
    {<<Prog, "list">>, <<Prog, "list", "todo">>, <<Prog, "list", "done">>,
     <<Prog, "list", "in-progress">>, <<Prog, "list", "foo">>,
     <<Prog, "list", "">>}
IdArgvs ==
    {<<Prog, "update", i, d>> : i \in {"1", "2"}, d \in {"b", ""}}
    \cup {<<Prog, c, i>> : c \in {"delete", "mark-in-progress", "mark-done"},
                           i \in {"1", "2"}}

Argvs == UsageArgvs \cup AddArgvs \cup ListArgvs \cup IdArgvs

\* The command lines of the invocations that run concurrently.
RaceArgvs ==
    {<<Prog, "add", "a">>, <<Prog, "list">>, <<Prog, "update", "1", "b">>,
     <<Prog, "delete", "1">>, <<Prog, "delete", "2">>,
     <<Prog, "mark-done", "1">>}

\* sys.argv[i], Python's index.
Arg(a, i) == a[i + 1]

\* int(s): the value of a decimal literal, or a ValueError.  Python strips
\* surrounding white space and accepts a sign.
None == "None"
IntValue(n) == [ok |-> TRUE, val |-> n]
ValueError == [ok |-> FALSE, val |-> 0]
int(s) ==
    CASE s = "0" -> IntValue(0)
      [] s = "1" -> IntValue(1)
      [] s = "2" -> IntValue(2)
      [] s = "3" -> IntValue(3)
      [] s = " 2" -> IntValue(2)
      [] s = "+1" -> IntValue(1)
      [] s = "-1" -> IntValue(-1)
      [] OTHER -> ValueError

\* " ".join(sys.argv[i:])
RECURSIVE join(_, _)
join(a, i) ==
    IF i >= Len(a) THEN ""
    ELSE IF i = Len(a) - 1 THEN Arg(a, i)
    ELSE Arg(a, i) \o " " \o join(a, i + 1)

\* ------------------------------------------------------------ pure helpers
RECURSIVE MaxOf(_)
MaxOf(S) ==
    LET x == CHOOSE y \in S : TRUE
    IN IF S = {x} THEN x
       ELSE LET m == MaxOf(S \ {x}) IN IF x > m THEN x ELSE m

\* Ids that start at 0.
get_next_id_from_zero(tasks) ==
    IF tasks = <<>> THEN 0
    ELSE MaxOf({tasks[i].id : i \in 1..Len(tasks)}) + 1

\* The largest id, without the + 1.
get_next_id_max(tasks) ==
    IF tasks = <<>> THEN 1
    ELSE MaxOf({tasks[i].id : i \in 1..Len(tasks)})

get_next_id(tasks) ==
    IF tasks = <<>> THEN 1
    ELSE MaxOf({tasks[i].id : i \in 1..Len(tasks)}) + 1

\* A lookup that falls through to the last task when no task has the id.
find_task_fallthrough(tasks, task_id) ==
    IF \E i \in 1..Len(tasks) : tasks[i].id = task_id
    THEN CHOOSE i \in 1..Len(tasks) :
            /\ tasks[i].id = task_id
            /\ \A j \in 1..(i - 1) : tasks[j].id # task_id
    ELSE Len(tasks)

\* The index of the first task with the given id, 0 when there is none: the
\* task the loops of update_task, delete_task and mark_task stop at.
find_task(tasks, task_id) ==
    IF \E i \in 1..Len(tasks) : tasks[i].id = task_id
    THEN CHOOSE i \in 1..Len(tasks) :
            /\ tasks[i].id = task_id
            /\ \A j \in 1..(i - 1) : tasks[j].id # task_id
    ELSE 0

\* A deletion that cuts the list at the task.
del_rest(tasks, i) == SubSeq(tasks, 1, i - 1)

\* del tasks[i]
del(tasks, i) == SubSeq(tasks, 1, i - 1) \o SubSeq(tasks, i + 1, Len(tasks))

\* [task for task in tasks if task['status'] == status_filter]
RECURSIVE filter_status(_, _)
filter_status(tasks, status_filter) ==
    IF tasks = <<>> THEN <<>>
    ELSE (IF Head(tasks).status = status_filter THEN <<Head(tasks)>> ELSE <<>>)
         \o filter_status(Tail(tasks), status_filter)

\* The tasks list_tasks prints: "if status_filter:" is false for None and for
\* the empty string.
list_selection(tasks, status_filter) ==
    IF status_filter # None /\ status_filter # ""
    THEN filter_status(tasks, status_filter)
    ELSE tasks

\* What load_tasks does on a file: the collection it returns, whether it
\* prints "Error loading tasks", or the exception that leaves it.
load_tasks(f) ==
    CASE f.kind = "missing" -> [raises |-> FALSE, diag |-> FALSE, tasks |-> <<>>]
      [] f.kind = "doc" -> [raises |-> FALSE, diag |-> FALSE, tasks |-> f.tasks]
      [] f.kind = "malformed" -> [raises |-> FALSE, diag |-> TRUE, tasks |-> <<>>]
      [] f.kind = "unreadable" -> [raises |-> FALSE, diag |-> TRUE, tasks |-> <<>>]
      [] f.kind = "badenc" -> [raises |-> TRUE, diag |-> FALSE, tasks |-> <<>>]

\* json.dump raises UnicodeEncodeError when a string of the document has a
\* lone surrogate.
Encodable(tasks) == \A i \in 1..Len(tasks) : tasks[i].description # Surrogate

\* ------------------------------------------------------------------ output
Out(kind, id) == [kind |-> kind, id |-> id]
Line(task) == [kind |-> "task", id |-> task.id, task |-> task]

RECURSIVE Lines(_)
Lines(tasks) ==
    IF tasks = <<>> THEN <<>> ELSE <<Line(Head(tasks))>> \o Lines(Tail(tasks))

\* ------------------------------------------------------------------- state
VARIABLES
    file,        \* tasks.json
    clock,       \* the last reading of the local clock
    ninv,        \* invocations started so far
    pc,          \* where each process is
    argv,        \* sys.argv of the process
    task_id,     \* the id argument, parsed
    data,        \* the collection in the process's memory
    new_id,      \* the id add_task assigned
    stdout,      \* what the process printed
    stderr,      \* what the process printed on the error stream
    exitcode,    \* exit status, -1 while the process runs
    loads,       \* history: calls of load_tasks in this invocation
    saves,       \* history: calls of save_tasks in this invocation
    saved,       \* history: how save_tasks ended: "", "ok" or "failed"
    loaded,      \* history: the collection load_tasks returned
    fileBefore,  \* history: tasks.json when the invocation started
    deletedIds,  \* history: ids of the tasks deleted so far
    race,        \* history: both processes loaded before either saved
    lastWriter   \* history: the process that wrote tasks.json last

vars == <<file, clock, ninv, pc, argv, task_id, data, new_id, stdout, stderr,
          exitcode, loads, saves, saved, loaded, fileBefore, deletedIds,
          race, lastWriter>>

\* command = sys.argv[1]; "" stands for a command line without one.
command(p) == IF Len(argv[p]) > 1 THEN Arg(argv[p], 1) ELSE ""

Init ==
    /\ file = Missing
    /\ clock = 0
    /\ ninv = 0
    /\ pc = [p \in Procs |-> "idle"]
    /\ argv = [p \in Procs |-> <<Prog>>]
    /\ task_id = [p \in Procs |-> 0]
    /\ data = [p \in Procs |-> <<>>]
    /\ new_id = [p \in Procs |-> 0]
    /\ stdout = [p \in Procs |-> <<>>]
    /\ stderr = [p \in Procs |-> <<>>]
    /\ exitcode = [p \in Procs |-> -1]
    /\ loads = [p \in Procs |-> 0]
    /\ saves = [p \in Procs |-> 0]
    /\ saved = [p \in Procs |-> ""]
    /\ loaded = [p \in Procs |-> <<>>]
    /\ fileBefore = [p \in Procs |-> Missing]
    /\ deletedIds = {}
    /\ race = FALSE
    /\ lastWriter = 0

\* ------------------------------------------------------------------ main()
\* A validation that asks update for an id only.
usage_error_update_arity(a) ==
    LET cmd == Arg(a, 1) IN
    CASE cmd = "add" -> IF Len(a) < 3 THEN "usage" ELSE ""
      [] cmd = "list" -> ""
      [] cmd = "update" ->
            IF Len(a) < 3 THEN "usage"
            ELSE IF ~int(Arg(a, 2)).ok THEN "nan" ELSE ""
      [] cmd \in {"delete", "mark-in-progress", "mark-done"} ->
            IF Len(a) < 3 THEN "usage"
            ELSE IF ~int(Arg(a, 2)).ok THEN "nan" ELSE ""
      [] OTHER -> "unknown"

\* The usage error main() reports for a command line, "" when it reports
\* none.
usage_error(a) ==
    LET cmd == Arg(a, 1) IN
    CASE cmd = "add" -> IF Len(a) < 3 THEN "usage" ELSE ""
      [] cmd = "list" -> ""
      [] cmd = "update" ->
            IF Len(a) < 4 THEN "usage"
            ELSE IF ~int(Arg(a, 2)).ok THEN "nan" ELSE ""
      [] cmd \in {"delete", "mark-in-progress", "mark-done"} ->
            IF Len(a) < 3 THEN "usage"
            ELSE IF ~int(Arg(a, 2)).ok THEN "nan" ELSE ""
      [] OTHER -> "unknown"

\* A process starts: main() runs up to the call of the command's function,
\* or to its end when it shows the help or reports a usage error.
main(p, A, max) ==
    /\ pc[p] \in {"idle", "done"}
    /\ ninv < max
    /\ ninv' = ninv + 1
    /\ \E a \in A :
        /\ argv' = [argv EXCEPT ![p] = a]
        /\ IF Len(a) = 1
           THEN /\ pc' = [pc EXCEPT ![p] = "done"]
                /\ stdout' = [stdout EXCEPT ![p] = <<Out("help", 0)>>]
                /\ stderr' = [stderr EXCEPT ![p] = <<>>]
                /\ exitcode' = [exitcode EXCEPT ![p] = 0]
                /\ task_id' = [task_id EXCEPT ![p] = 0]
           ELSE IF usage_error(a) # ""
           THEN /\ pc' = [pc EXCEPT ![p] = "done"]
                /\ stderr' = [stderr EXCEPT ![p] = <<Out(usage_error(a), 0)>>]
                /\ stdout' = [stdout EXCEPT ![p] =
                       IF usage_error(a) = "nan" THEN <<>>
                       ELSE IF usage_error(a) = "unknown" THEN <<Out("help", 0)>>
                       ELSE <<Out("usage", 0)>>]
                /\ exitcode' = [exitcode EXCEPT ![p] = 1]
                /\ task_id' = [task_id EXCEPT ![p] = 0]
           ELSE /\ pc' = [pc EXCEPT ![p] = "load"]
                /\ stdout' = [stdout EXCEPT ![p] = <<>>]
                /\ stderr' = [stderr EXCEPT ![p] = <<>>]
                /\ exitcode' = [exitcode EXCEPT ![p] = -1]
                /\ task_id' = [task_id EXCEPT ![p] =
                       IF Arg(a, 1) \in {"add", "list"} THEN 0
                       ELSE int(Arg(a, 2)).val]
    /\ data' = [data EXCEPT ![p] = <<>>]
    /\ new_id' = [new_id EXCEPT ![p] = 0]
    /\ loads' = [loads EXCEPT ![p] = 0]
    /\ saves' = [saves EXCEPT ![p] = 0]
    /\ saved' = [saved EXCEPT ![p] = ""]
    /\ loaded' = [loaded EXCEPT ![p] = <<>>]
    /\ fileBefore' = [fileBefore EXCEPT ![p] = file]
    /\ race' = FALSE
    /\ lastWriter' = 0
    /\ UNCHANGED <<file, clock, deletedIds>>

\* ------------------------------------------------------------ load_tasks()
\* The first statement of every command's function.  An exception other
\* than IOError and JSONDecodeError leaves load_tasks and ends the process
\* with a traceback.
Load(p) ==
    /\ pc[p] = "load"
    /\ loads' = [loads EXCEPT ![p] = @ + 1]
    /\ LET r == load_tasks(file) IN
        IF r.raises
        THEN /\ pc' = [pc EXCEPT ![p] = "done"]
             /\ stderr' = [stderr EXCEPT ![p] = Append(@, Out("traceback", 0))]
             /\ exitcode' = [exitcode EXCEPT ![p] = 1]
             /\ UNCHANGED <<data, loaded>>
        ELSE /\ pc' = [pc EXCEPT ![p] = "loaded"]
             /\ data' = [data EXCEPT ![p] = r.tasks]
             /\ loaded' = [loaded EXCEPT ![p] = r.tasks]
             /\ stderr' = [stderr EXCEPT ![p] =
                    IF r.diag THEN Append(@, Out("error loading", 0)) ELSE @]
             /\ UNCHANGED exitcode
    /\ UNCHANGED <<file, clock, ninv, argv, task_id, new_id, stdout, saves, saved,
                   fileBefore, deletedIds, race, lastWriter>>

\* -------------------------------------------------------------- add_task()
\* A new task that starts in progress.
new_task_started(new_id_, description, now) ==
    Task(new_id_, description, "in-progress", now, now)

\* Lines 72-78.
new_task(new_id_, description, now) ==
    Task(new_id_, description, "todo", now, now)

\* Lines 69-80: the new task is appended to the collection in memory.
add_task(p, T) ==
    /\ pc[p] = "loaded"
    /\ command(p) = "add"
    /\ \E now \in T :
        /\ clock' = now
        /\ LET id == get_next_id(data[p])
               description == join(argv[p], 2)
           IN /\ new_id' = [new_id EXCEPT ![p] = id]
              /\ data' = [data EXCEPT ![p] =
                     Append(@, new_task(id, description, now))]
    /\ pc' = [pc EXCEPT ![p] = "save"]
    /\ UNCHANGED <<file, ninv, argv, task_id, stdout, stderr, exitcode, loads,
                   saves, saved, loaded, fileBefore, deletedIds, race, lastWriter>>

\* ----------------------------------------------------------- update_task()
\* Lines 113-119 and 127-128: the task is changed in memory, or the process
\* ends with "not found".
update_task(p, T) ==
    /\ pc[p] = "loaded"
    /\ command(p) = "update"
    /\ LET i == find_task(data[p], task_id[p]) IN
        IF i = 0
        THEN /\ pc' = [pc EXCEPT ![p] = "done"]
             /\ stderr' = [stderr EXCEPT ![p] =
                    Append(@, Out("not found", task_id[p]))]
             /\ exitcode' = [exitcode EXCEPT ![p] = 1]
             /\ UNCHANGED <<data, clock>>
        ELSE /\ \E now \in T :
                /\ clock' = now
                /\ data' = [data EXCEPT ![p][i] =
                       [@ EXCEPT !.description = join(argv[p], 3),
                                 !.updatedAt = now]]
             /\ pc' = [pc EXCEPT ![p] = "save"]
             /\ UNCHANGED <<stderr, exitcode>>
    /\ UNCHANGED <<file, ninv, argv, task_id, new_id, stdout, loads, saves, saved,
                   loaded, fileBefore, deletedIds, race, lastWriter>>

\* ----------------------------------------------------------- delete_task()
\* Lines 136-141 and 149-150.
delete_task(p) ==
    /\ pc[p] = "loaded"
    /\ command(p) = "delete"
    /\ LET i == find_task(data[p], task_id[p]) IN
        IF i = 0
        THEN /\ pc' = [pc EXCEPT ![p] = "done"]
             /\ stderr' = [stderr EXCEPT ![p] =
                    Append(@, Out("not found", task_id[p]))]
             /\ exitcode' = [exitcode EXCEPT ![p] = 1]
             /\ UNCHANGED data
        ELSE /\ data' = [data EXCEPT ![p] = del(@, i)]
             /\ pc' = [pc EXCEPT ![p] = "save"]
             /\ UNCHANGED <<stderr, exitcode>>
    /\ UNCHANGED <<file, clock, ninv, argv, task_id, new_id, stdout, loads,
                   saves, saved, loaded, fileBefore, deletedIds, race, lastWriter>>

\* ------------------------------------------------------------- mark_task()
\* A mark that never takes a task that is done back to in-progress.
mark_status_forward(status, old) ==
    IF old = "done" THEN old
    ELSE IF status = "mark-in-progress" THEN "in-progress"
    ELSE IF status = "mark-done" THEN "done"
    ELSE old

\* The status mark_task sets for a command word; any other word leaves the
\* status as it is.
mark_status(status, old) ==
    IF status = "mark-in-progress" THEN "in-progress"
    ELSE IF status = "mark-done" THEN "done"
    ELSE old

\* Lines 158-168 and 177-178.
mark_task(p, T) ==
    /\ pc[p] = "loaded"
    /\ command(p) \in {"mark-in-progress", "mark-done"}
    /\ LET i == find_task(data[p], task_id[p]) IN
        IF i = 0
        THEN /\ pc' = [pc EXCEPT ![p] = "done"]
             /\ stderr' = [stderr EXCEPT ![p] =
                    Append(@, Out("not found", task_id[p]))]
             /\ exitcode' = [exitcode EXCEPT ![p] = 1]
             /\ UNCHANGED <<data, clock>>
        ELSE /\ \E now \in T :
                /\ clock' = now
                /\ data' = [data EXCEPT ![p][i] =
                       [@ EXCEPT !.status = mark_status(command(p), @),
                                 !.updatedAt = now]]
             /\ pc' = [pc EXCEPT ![p] = "save"]
             /\ UNCHANGED <<stderr, exitcode>>
    /\ UNCHANGED <<file, ninv, argv, task_id, new_id, stdout, loads, saves, saved,
                   loaded, fileBefore, deletedIds, race, lastWriter>>

\* ------------------------------------------------------------ list_tasks()
\* sys.argv[2] if len(sys.argv) >= 3 else None
status_filter(a) == IF Len(a) >= 3 THEN Arg(a, 2) ELSE None

\* A list that writes the collection back.
list_tasks_saving(p) ==
    /\ pc[p] = "loaded"
    /\ command(p) = "list"
    /\ LET tasks == list_selection(data[p], status_filter(argv[p])) IN
        stdout' = [stdout EXCEPT ![p] =
            IF tasks = <<>> THEN Append(@, Out("no tasks", 0))
            ELSE @ \o Lines(tasks)]
    /\ pc' = [pc EXCEPT ![p] = "save"]
    /\ UNCHANGED <<file, clock, ninv, argv, task_id, data, new_id, stderr,
                   exitcode, loads, saves, saved, loaded, fileBefore,
                   deletedIds, race, lastWriter>>

\* Lines 94-104: the selected tasks are printed, one line each, or the
\* "No tasks found." message.
list_tasks(p) ==
    /\ pc[p] = "loaded"
    /\ command(p) = "list"
    /\ LET tasks == list_selection(data[p], status_filter(argv[p])) IN
        stdout' = [stdout EXCEPT ![p] =
            IF tasks = <<>> THEN Append(@, Out("no tasks", 0))
            ELSE @ \o Lines(tasks)]
    /\ pc' = [pc EXCEPT ![p] = "done"]
    /\ exitcode' = [exitcode EXCEPT ![p] = 0]
    /\ UNCHANGED <<file, clock, ninv, argv, task_id, data, new_id, stderr,
                   loads, saves, saved, loaded, fileBefore, deletedIds, race,
                   lastWriter>>

\* ------------------------------------------------------------ save_tasks()
\* The message the command prints after save_tasks returned.
success(p) ==
    CASE command(p) = "add" -> Out("added", new_id[p])
      [] command(p) = "update" -> Out("updated", task_id[p])
      [] command(p) = "delete" -> Out("deleted", task_id[p])
      [] OTHER -> Out("marked", task_id[p])

\* A handler that reports the failure and carries on as after a save.
save_failure_swallowed(p, exc) ==
    [pc |-> "done",
     stdout |-> Append(stdout[p], success(p)),
     stderr |-> Append(stderr[p], Out("error saving", 0)),
     exitcode |-> 0]

\* A handler that tries the save once more.
save_failure_retry(p, exc) ==
    [pc |-> IF saves[p] < 2 THEN "save" ELSE "done",
     stdout |-> stdout[p],
     stderr |-> Append(stderr[p],
                  Out(IF exc = "IOError" THEN "error saving" ELSE "traceback", 0)),
     exitcode |-> IF saves[p] < 2 THEN -1 ELSE 1]

\* How a failure inside save_tasks ends the process.  save_tasks reports an
\* IOError and raises it again, and the command's function turns it into
\* sys.exit(1); any other exception is caught by nobody and ends the process
\* with a traceback and exit status 1.
save_failure(p, exc) ==
    [pc |-> "done",
     stdout |-> stdout[p],
     stderr |-> Append(stderr[p],
                  Out(IF exc = "IOError" THEN "error saving" ELSE "traceback", 0)),
     exitcode |-> 1]

\* open(TASKS_FILE, 'w'): the file is created or truncated, or the open
\* fails with an IOError.
SaveOpen(p) ==
    /\ pc[p] = "save"
    /\ saves' = [saves EXCEPT ![p] = @ + 1]
    /\ race' = (race \/ \E q \in Procs \ {p} : pc[q] \in {"loaded", "save"})
    /\ \/ /\ file.kind # "unreadable"
          /\ file' = Malformed
          /\ pc' = [pc EXCEPT ![p] = "write"]
          /\ lastWriter' = p
          /\ UNCHANGED <<stdout, stderr, exitcode, saved>>
       \/ /\ LET r == save_failure(p, "IOError") IN
                /\ pc' = [pc EXCEPT ![p] = r.pc]
                /\ stdout' = [stdout EXCEPT ![p] = r.stdout]
                /\ stderr' = [stderr EXCEPT ![p] = r.stderr]
                /\ exitcode' = [exitcode EXCEPT ![p] = r.exitcode]
          /\ saved' = [saved EXCEPT ![p] = "failed"]
          /\ UNCHANGED <<file, lastWriter>>
    /\ UNCHANGED <<clock, ninv, argv, task_id, data, new_id, loads, loaded,
                   fileBefore, deletedIds>>

\* json.dump(data, f) and the end of the with block: the document is
\* written, or the write fails and leaves a partly written file.  The
\* failure is an IOError, or a UnicodeEncodeError when the document cannot
\* be encoded.
SaveWrite(p) ==
    /\ pc[p] = "write"
    /\ lastWriter' = p
    /\ \/ /\ Encodable(data[p])
          /\ file' = Doc(data[p])
          /\ pc' = [pc EXCEPT ![p] = "done"]
          /\ stdout' = [stdout EXCEPT ![p] = Append(@, success(p))]
          /\ exitcode' = [exitcode EXCEPT ![p] = 0]
          /\ saved' = [saved EXCEPT ![p] = "ok"]
          /\ deletedIds' = IF command(p) = "delete"
                           THEN deletedIds \cup {task_id[p]}
                           ELSE deletedIds
          /\ UNCHANGED stderr
       \/ /\ file' = Malformed
          /\ \E exc \in {"IOError"} \cup (IF Encodable(data[p]) THEN {}
                                         ELSE {"UnicodeEncodeError"}) :
             LET r == save_failure(p, exc) IN
                /\ pc' = [pc EXCEPT ![p] = r.pc]
                /\ stdout' = [stdout EXCEPT ![p] = r.stdout]
                /\ stderr' = [stderr EXCEPT ![p] = r.stderr]
                /\ exitcode' = [exitcode EXCEPT ![p] = r.exitcode]
          /\ saved' = [saved EXCEPT ![p] = "failed"]
          /\ UNCHANGED deletedIds
    /\ UNCHANGED <<clock, ninv, argv, task_id, data, new_id, loads, saves,
                   loaded, fileBefore, race>>

\* The steps of a process after main(); T holds the readings the local
\* clock may give.
Run(p, T) ==
    \/ Load(p)
    \/ add_task(p, T)
    \/ update_task(p, T)
    \/ delete_task(p)
    \/ mark_task(p, T)
    \/ list_tasks(p)
    \/ SaveOpen(p)
    \/ SaveWrite(p)

\* One invocation after the other, with any command line.
Next ==
    \/ main(1, Argvs, MaxInv)
    \/ Run(1, 0..MaxClock)

Spec == Init /\ [][Next]_vars

\* The files an invocation may find: tasks.json is not the program's alone.
InitFiles ==
    {Missing, Malformed, BadEncoding, Unreadable,
     Doc(<<>>),
     Doc(<<Task(1, "a", "todo", 0, 0)>>),
     Doc(<<Task(2, "a", "in-progress", 0, 1)>>),
     Doc(<<Task(1, "a", "done", 0, 1), Task(2, "b", "todo", 1, 1)>>)}

FileInit ==
    /\ file \in InitFiles
    /\ clock = 0
    /\ ninv = 0
    /\ pc = [p \in Procs |-> "idle"]
    /\ argv = [p \in Procs |-> <<Prog>>]
    /\ task_id = [p \in Procs |-> 0]
    /\ data = [p \in Procs |-> <<>>]
    /\ new_id = [p \in Procs |-> 0]
    /\ stdout = [p \in Procs |-> <<>>]
    /\ stderr = [p \in Procs |-> <<>>]
    /\ exitcode = [p \in Procs |-> -1]
    /\ loads = [p \in Procs |-> 0]
    /\ saves = [p \in Procs |-> 0]
    /\ saved = [p \in Procs |-> ""]
    /\ loaded = [p \in Procs |-> <<>>]
    /\ fileBefore = [p \in Procs |-> file]
    /\ deletedIds = {}
    /\ race = FALSE
    /\ lastWriter = 0

FileNext ==
    \/ main(1, Argvs, MaxFileInv)
    \/ Run(1, 0..MaxClock)

FileSpec == FileInit /\ [][FileNext]_vars

\* Invocations that run at the same time on the same file.
RaceNext ==
    \E p \in Procs :
        \/ main(p, RaceArgvs, MaxInv)
        \/ Run(p, 0..MaxRaceClock)

RaceSpec == Init /\ [][RaceNext]_vars

\* -------------------------------------------------------------- properties
Done(p) == pc[p] = "done"

\* The kinds of the messages on a stream.
Kinds(stream) == {stream[i].kind : i \in 1..Len(stream)}

SuccessKinds == {"added", "updated", "deleted", "marked"}

\* The ids of the tasks a file holds.
IdsOf(f) == {f.tasks[i].id : i \in 1..Len(f.tasks)}

\* ---------------------------------------------------------------------- C1
\* C1: once a task has been deleted, no later successful add reports the id
\* that task had.  Stated for every add that completes: the id it assigned
\* is not the id of a task deleted before the add started.
C1_NoIdReuse ==
    [][\A p \in Procs :
          (/\ pc[p] = "write" /\ pc'[p] = "done" /\ saved'[p] = "ok"
           /\ command(p) = "add")
          => new_id[p] \notin deletedIds]_vars

\* ---------------------------------------------------------------------- C2
\* The invocation of process p reached storage with an id command whose id
\* no task of the file had.
NotFoundCase(p) ==
    /\ Done(p)
    /\ command(p) \in {"update", "delete", "mark-in-progress", "mark-done"}
    /\ loads[p] = 1
    /\ task_id[p] \notin IdsOf(fileBefore[p])

\* C2: update, mark-in-progress, mark-done and delete on an id that no
\* stored task has exit with a non-zero status, perform no save and leave
\* tasks.json as it was before the invocation.
C2_NotFoundUntouched ==
    \A p \in Procs :
        NotFoundCase(p) =>
            /\ exitcode[p] # 0
            /\ saves[p] = 0
            /\ file = fileBefore[p]

\* A not-found invocation on a document that holds tasks has ended.
C2_Witness ==
    \E p \in Procs :
        /\ NotFoundCase(p)
        /\ fileBefore[p].kind = "doc"
        /\ fileBefore[p].tasks # <<>>
        /\ "not found" \in Kinds(stderr[p])

\* ---------------------------------------------------------------------- C3
\* C3: when the save step of an invocation fails, tasks.json after the
\* invocation is what it was before the invocation.
C3_SaveFailureKeepsFile ==
    \A p \in Procs :
        (Done(p) /\ saved[p] = "failed") => file = fileBefore[p]

\* ---------------------------------------------------------------------- C4
\* C4: when the save step of an invocation fails, the invocation writes a
\* diagnostic to the error stream, exits with status 1 and prints no success
\* message.
C4_SaveFailureObservable ==
    \A p \in Procs :
        (Done(p) /\ saved[p] = "failed") =>
            /\ Kinds(stderr[p]) \cap {"error saving", "traceback"} # {}
            /\ exitcode[p] = 1
            /\ Kinds(stdout[p]) \cap SuccessKinds = {}

\* A write failed after the open had truncated a stored document.
C4_Witness ==
    \E p \in Procs :
        /\ Done(p)
        /\ saved[p] = "failed"
        /\ file = Malformed
        /\ fileBefore[p].kind = "doc"
        /\ "error saving" \in Kinds(stderr[p])

\* ---------------------------------------------------------------------- C5
\* C5: in every document stored in tasks.json, also when invocations
\* interleave their loads and saves, every task id is a positive integer and
\* no two tasks have the same id.
C5_IdsPositiveUnique ==
    file.kind = "doc" =>
        \A i, j \in 1..Len(file.tasks) :
            /\ file.tasks[i].id > 0
            /\ (i # j => file.tasks[i].id # file.tasks[j].id)

\* Two tasks are stored after invocations that raced.
C5_Witness ==
    /\ file.kind = "doc"
    /\ Len(file.tasks) >= 2
    /\ race

\* ---------------------------------------------------------------------- C6
\* after is before with the one mutation of p's command line applied.
Effect(p, before, after) ==
    CASE command(p) = "add" ->
            /\ Len(after) = Len(before) + 1
            /\ SubSeq(after, 1, Len(before)) = before
            /\ after[Len(after)].id = new_id[p]
            /\ after[Len(after)].description = argv[p][3]
            /\ after[Len(after)].status = "todo"
            /\ after[Len(after)].createdAt = after[Len(after)].updatedAt
      [] command(p) = "delete" ->
            after = SelectSeq(before, LAMBDA t : t.id # task_id[p])
      [] command(p) = "update" ->
            /\ Len(after) = Len(before)
            /\ \A i \in 1..Len(before) :
                  IF before[i].id = task_id[p]
                  THEN after[i] = [before[i] EXCEPT
                                      !.description = argv[p][4],
                                      !.updatedAt = after[i].updatedAt]
                  ELSE after[i] = before[i]
      [] command(p) = "mark-done" ->
            /\ Len(after) = Len(before)
            /\ \A i \in 1..Len(before) :
                  IF before[i].id = task_id[p]
                  THEN after[i] = [before[i] EXCEPT
                                      !.status = "done",
                                      !.updatedAt = after[i].updatedAt]
                  ELSE after[i] = before[i]
      [] OTHER -> FALSE

\* Both processes loaded before either saved, and both saved.
Raced ==
    /\ race
    /\ \A p \in Procs : Done(p) /\ saved[p] = "ok"

RECURSIVE PrintedTasks(_)
PrintedTasks(stream) ==
    IF stream = <<>> THEN <<>>
    ELSE (IF Head(stream).kind = "task" THEN <<Head(stream).task>> ELSE <<>>)
         \o PrintedTasks(Tail(stream))

\* C7: list with a filter argument prints exactly the stored tasks whose
\* status equals the argument, in stored order; for an argument that is not
\* todo, in-progress or done it prints no task but "No tasks found.".
C7_ListFilter ==
    \A p \in Procs :
        (/\ Done(p) /\ command(p) = "list" /\ Len(argv[p]) >= 3
         /\ fileBefore[p].kind = "doc")
        => /\ PrintedTasks(stdout[p]) =
                 SelectSeq(fileBefore[p].tasks,
                           LAMBDA t : t.status = argv[p][3])
           /\ argv[p][3] \notin {"todo", "in-progress", "done"}
                 => stdout[p] = <<Out("no tasks", 0)>>

\* ---------------------------------------------------------------------- C8
\* C8: load_tasks returns to its caller for every state of tasks.json: the
\* empty collection for a missing file, the empty collection and a
\* diagnostic for a file that cannot be read or parsed, and the stored
\* collection otherwise.
C8_LoadNeverRaises ==
    [][\A p \in Procs :
          (pc[p] = "load" /\ pc'[p] # "load") =>
              /\ pc'[p] = "loaded"
              /\ loaded'[p] = (IF file.kind = "doc" THEN file.tasks ELSE <<>>)
              /\ ("error loading" \in Kinds(stderr'[p]))
                    <=> (file.kind \notin {"missing", "doc"})]_vars

\* ---------------------------------------------------------------------- C9
NonIntegers == {"x"}
CommandWords ==
    {"add", "list", "update", "delete", "mark-in-progress", "mark-done"}

\* The command line fails argument validation.
InvalidArgs(a) ==
    /\ Len(a) >= 2
    /\ \/ a[2] \notin CommandWords
       \/ a[2] = "add" /\ Len(a) = 2
       \/ a[2] = "update" /\ Len(a) <= 3
       \/ a[2] \in {"delete", "mark-in-progress", "mark-done"} /\ Len(a) = 2
       \/ /\ a[2] \in {"update", "delete", "mark-in-progress", "mark-done"}
          /\ Len(a) >= 3
          /\ a[3] \in NonIntegers

\* C9: an invocation that fails argument validation exits with status 1
\* without a load or a save, and tasks.json stays as it was.
C9_ValidationFirst ==
    \A p \in Procs :
        (pc[p] # "idle" /\ InvalidArgs(argv[p])) =>
            /\ Done(p)
            /\ exitcode[p] = 1
            /\ loads[p] = 0
            /\ saves[p] = 0
            /\ file = fileBefore[p]

\* An update without a description was refused on a store that holds a task.
C9_Witness ==
    \E p \in Procs :
        /\ Done(p)
        /\ argv[p] = <<Prog, "update", "1">>
        /\ file.kind = "doc"
        /\ file.tasks # <<>>
        /\ stderr[p] # <<>>

\* --------------------------------------------------------------------- C10
\* C10: an invocation loads at most once and saves at most once, and it
\* saves only after it has loaded.
C10_OneLoadOneSave ==
    \A p \in Procs :
        /\ loads[p] <= 1
        /\ saves[p] <= 1
        /\ saves[p] >= 1 => loads[p] >= 1
        /\ pc[p] = "load" => saves[p] = 0

\* An invocation whose write failed has ended after one load and one save.
C10_Witness ==
    \E p \in Procs :
        /\ Done(p)
        /\ loads[p] = 1
        /\ saves[p] = 1
        /\ saved[p] = "failed"
        /\ file = Malformed

\* --------------------------------------------------------------------- C11
\* Every invocation so far was an add that saved: each invocation stores at
\* most one more task, so as many tasks as invocations means just that.
OnlyAdds ==
    /\ Done(1)
    /\ ninv >= 1
    /\ file.kind = "doc"
    /\ Len(file.tasks) = ninv

\* C11: from an empty store, n successful adds with nothing in between
\* assign the ids 1, 2, ..., n in that order: the n-th add reports n and the
\* stored tasks carry 1 .. n in insertion order.
C11_SequentialAddIds ==
    OnlyAdds =>
        /\ stdout[1] = <<Out("added", ninv)>>
        /\ \A i \in 1..Len(file.tasks) : file.tasks[i].id = i

\* Three adds in a row have ended.
C11_Witness ==
    /\ OnlyAdds
    /\ ninv >= 3
    /\ new_id[1] = ninv

\* --------------------------------------------------------------------- C12
\* C12: in every document stored from an empty store, every task has a
\* description that is not empty.
C12_DescriptionsNonEmpty ==
    file.kind = "doc" =>
        \A i \in 1..Len(file.tasks) : file.tasks[i].description # ""

\* --------------------------------------------------------------------- C13
\* C13: in every document stored from an empty store, with every stamp a
\* reading of the local clock, every task has updatedAt >= createdAt.
C13_UpdatedNotBeforeCreated ==
    file.kind = "doc" =>
        \A i \in 1..Len(file.tasks) :
            file.tasks[i].updatedAt >= file.tasks[i].createdAt

\* --------------------------------------------------------------------- C14
\* C14: a list invocation, with or without a filter and whatever the state
\* of tasks.json, never saves and leaves the file as it was.
C14_ListReadOnly ==
    \A p \in Procs :
        (pc[p] # "idle" /\ command(p) = "list") =>
            /\ saves[p] = 0
            /\ pc[p] \notin {"save", "write"}
            /\ file = fileBefore[p]

\* A list with a filter has printed a task of a stored document.
C14_Witness ==
    \E p \in Procs :
        /\ Done(p)
        /\ command(p) = "list"
        /\ Len(argv[p]) >= 3
        /\ file.kind = "doc"
        /\ "task" \in Kinds(stdout[p])

\* --------------------------------------------------------------------- C15
\* The task of a collection that has the id, and its position.
PosOf(tasks, id) == CHOOSE i \in 1..Len(tasks) : tasks[i].id = id

\* after is before with nothing changed but what the command of p may
\* change in the task with id k.
Frame(p, k, before, after) ==
    CASE command(p) = "delete" ->
            after = SelectSeq(before, LAMBDA t : t.id # k)
      [] command(p) = "update" ->
            /\ Len(after) = Len(before)
            /\ \A i \in 1..Len(before) :
                  IF i = PosOf(before, k)
                  THEN /\ after[i].id = k
                       /\ after[i].createdAt = before[i].createdAt
                       /\ after[i].status = before[i].status
                  ELSE after[i] = before[i]
      [] command(p) \in {"mark-in-progress", "mark-done"} ->
            /\ Len(after) = Len(before)
            /\ \A i \in 1..Len(before) :
                  IF i = PosOf(before, k)
                  THEN /\ after[i].id = k
                       /\ after[i].createdAt = before[i].createdAt
                       /\ after[i].description = before[i].description
                  ELSE after[i] = before[i]
      [] OTHER -> TRUE

\* The invocation of process p changed the stored task with id task_id[p].
Mutated(p) ==
    /\ Done(p)
    /\ saved[p] = "ok"
    /\ command(p) \in {"update", "delete", "mark-in-progress", "mark-done"}

\* C15: a successful update of id k changes only the description and
\* updatedAt of task k, a successful mark only its status and updatedAt, and
\* a successful delete removes task k alone; every other task keeps its
\* fields and its place, and task k keeps id, createdAt and place.
C15_MutationFrame ==
    \A p \in Procs :
        Mutated(p) =>
            /\ fileBefore[p].kind = "doc"
            /\ task_id[p] \in IdsOf(fileBefore[p])
            /\ file.kind = "doc"
            /\ Frame(p, task_id[p], fileBefore[p].tasks, file.tasks)

\* The first of two stored tasks was deleted, the second stayed.
C15_Witness ==
    \E p \in Procs :
        /\ Mutated(p)
        /\ command(p) = "delete"
        /\ Len(fileBefore[p].tasks) = 2
        /\ fileBefore[p].tasks[1].id = task_id[p]
        /\ file.tasks = <<fileBefore[p].tasks[2]>>

\* --------------------------------------------------------------------- C16
Statuses == {"todo", "in-progress", "done"}

\* The status a mark command asks for.
TargetStatus(cmd) == IF cmd = "mark-in-progress" THEN "in-progress" ELSE "done"

MarkWords == {"mark-in-progress", "mark-done"}

\* C16: every stored status is todo, in-progress or done; an add stores its
\* task as todo; a mark of a stored task is never refused and, once saved,
\* leaves the task with the status asked for, whatever its status was; no
\* invocation takes a stored task that has left todo back to todo.
C16_StatusLifecycle ==
    /\ file.kind = "doc" =>
          \A i \in 1..Len(file.tasks) : file.tasks[i].status \in Statuses
    /\ \A p \in Procs :
          /\ (Done(p) /\ saved[p] = "ok" /\ command(p) = "add") =>
                file.tasks[Len(file.tasks)].status = "todo"
          /\ (/\ Done(p) /\ command(p) \in MarkWords
              /\ fileBefore[p].kind = "doc"
              /\ task_id[p] \in IdsOf(fileBefore[p])) =>
                /\ saved[p] # ""
                /\ saved[p] = "ok" =>
                      /\ exitcode[p] = 0
                      /\ file.tasks[PosOf(file.tasks, task_id[p])].status
                            = TargetStatus(command(p))
          /\ (Done(p) /\ saved[p] = "ok" /\ fileBefore[p].kind = "doc") =>
                \A i \in 1..Len(fileBefore[p].tasks) :
                  \A j \in 1..Len(file.tasks) :
                    (/\ fileBefore[p].tasks[i].id = file.tasks[j].id
                     /\ fileBefore[p].tasks[i].status # "todo")
                    => file.tasks[j].status # "todo"

\* A task that was done has been marked in-progress.
C16_Witness ==
    \E p \in Procs :
        /\ Done(p)
        /\ saved[p] = "ok"
        /\ command(p) = "mark-in-progress"
        /\ fileBefore[p].tasks[PosOf(fileBefore[p].tasks, task_id[p])].status
              = "done"
        /\ file.tasks[PosOf(file.tasks, task_id[p])].status = "in-progress"

\* --------------------------------------------------------------------- C17
\* The file exists and the program cannot parse its content: it is not a JSON
\* document, or its bytes are not text.
Unparsable(f) == f.kind \in {"malformed", "badenc"}

\* C17: on a file that exists but cannot be parsed, a successful add
\* reports id 1 and leaves a document with the new task alone; update,
\* delete and mark fail as not found for every id and leave the file as it
\* was.
C17_UnparsableFile ==
    \A p \in Procs :
        (Done(p) /\ loads[p] = 1 /\ Unparsable(fileBefore[p])) =>
            /\ (command(p) = "add" /\ saved[p] = "ok") =>
                  /\ stdout[p] = <<Out("added", 1)>>
                  /\ file.kind = "doc"
                  /\ Len(file.tasks) = 1
                  /\ file.tasks[1].id = 1
            /\ command(p) \in {"update", "delete"} \cup MarkWords =>
                  /\ "not found" \in Kinds(stderr[p])
                  /\ exitcode[p] = 1
                  /\ saves[p] = 0
                  /\ file = fileBefore[p]

====
